---- MODULE Spec2Model ----
(***************************************************************************)
(* Model of the product-catalogue ETL pipeline of                          *)
(* src/high-perf-data-pipeline/src/pipeline.py.                            *)
(*                                                                         *)
(* Text is a sequence of one-character strings.  A Float64 column value is *)
(* an exact rational [num, den] (or an integer number of cents for the     *)
(* rounded price columns); an optional value is <<>> (null) or <<v>>.      *)
(* The columns id, shop and date are read by no stage and are left out.    *)
(***************************************************************************)
EXTENDS Integers, Sequences, FiniteSets, TLC

VARIABLES pc, inputExists, feed, config, lf, groups, output, written,
          exitStatus, successLogged, run, prevOutput

vars == <<pc, inputExists, feed, config, lf, groups, output, written,
          exitStatus, successLogged, run, prevOutput>>

----------------------------------------------------------------------------
(* Optional values *)

None == <<>>

Some(v) == <<v>>

IsNull(o) == o = <<>>

----------------------------------------------------------------------------
(* Characters *)

Digits == {"0", "1", "2", "3", "4", "5", "6", "7", "8", "9"}

UpperLetters == <<"A", "B", "C", "D", "E", "F", "G", "H", "I", "J", "K", "L", "M",
                  "N", "O", "P", "Q", "R", "S", "T", "U", "V", "W", "X", "Y", "Z">>

LowerLetters == <<"a", "b", "c", "d", "e", "f", "g", "h", "i", "j", "k", "l", "m",
                  "n", "o", "p", "q", "r", "s", "t", "u", "v", "w", "x", "y", "z">>

\* Byte order of the characters a fingerprint can hold: digits before letters.
CharOrder == <<"0", "1", "2", "3", "4", "5", "6", "7", "8", "9">> \o LowerLetters

IndexOf(seq, c) == CHOOSE i \in 1..Len(seq) : seq[i] = c

InSeq(seq, c) == \E i \in 1..Len(seq) : seq[i] = c

DigitVal(c) == IndexOf(CharOrder, c) - 1

RECURSIVE Pow10(_)
Pow10(k) == IF k = 0 THEN 1 ELSE 10 * Pow10(k - 1)

----------------------------------------------------------------------------
(* Configuration: PipelineConfig.  Money is in cents, the rate in          *)
(* hundredths (1.10 is 110).                                               *)

DefaultRate == 110

MinPriceEur == 500

MaxPriceMultiplier == 10

PriceScaleThreshold == 10000

DefaultSynonyms ==
    << << <<"p","s","5">>, <<"p","l","a","y","s","t","a","t","i","o","n"," ","5">> >>,
       << <<"p","s","4">>, <<"p","l","a","y","s","t","a","t","i","o","n"," ","4">> >>,
       << <<"s","2","1">>, <<"g","a","l","a","x","y"," ","s","2","1">> >>,
       << <<"m","a","c","b","o","o","k">>,
          <<"a","p","p","l","e"," ","m","a","c","b","o","o","k">> >>,
       << <<"p","l","a","y","s","t","a","t","i","o","n","5">>,
          <<"p","l","a","y","s","t","a","t","i","o","n"," ","5">> >> >>

PipelineConfig(rate, mult, syn) ==
    [usd_to_eur_rate |-> rate,
     min_price_eur |-> MinPriceEur,
     max_price_multiplier |-> mult,
     price_scale_threshold |-> PriceScaleThreshold,
     synonyms |-> syn]

----------------------------------------------------------------------------
(* normalize_pricing *)

\* pl.col("raw_price").str.contains(r"\$")
ContainsDollar(s) == \E i \in 1..Len(s) : s[i] = "$"

IsNumericChar(c) == c \in Digits \cup {",", "."}

\* .str.replace_all(r"[^0-9,.]", "")
StripNonNumeric(s) == SelectSeq(s, IsNumericChar)

\* .str.replace(",", "."): the first comma only
ReplaceFirstComma(s) ==
    IF InSeq(s, ",")
    THEN LET i == CHOOSE j \in 1..Len(s) :
                      s[j] = "," /\ \A k \in 1..(j - 1) : s[k] # ","
         IN [s EXCEPT ![i] = "."]
    ELSE s

RECURSIVE DigitsValue(_)
DigitsValue(ds) ==
    IF ds = <<>> THEN 0
    ELSE 10 * DigitsValue(SubSeq(ds, 1, Len(ds) - 1)) + DigitVal(ds[Len(ds)])

IsDigit(c) == c \in Digits

\* .cast(pl.Float64, strict=False): digits with at most one period and at
\* least one digit parse, anything else is null.
CastFloat(s) ==
    LET ds == SelectSeq(s, IsDigit)
        dots == {i \in 1..Len(s) : s[i] = "."}
    IN IF Len(ds) = 0 \/ Len(ds) + Cardinality(dots) # Len(s) \/ Cardinality(dots) > 1
       THEN None
       ELSE LET k == IF dots = {} THEN 0 ELSE Len(s) - (CHOOSE i \in dots : TRUE)
            IN Some([num |-> DigitsValue(ds), den |-> Pow10(k)])

RawFloat(raw_price) == CastFloat(ReplaceFirstComma(StripNonNumeric(raw_price)))

\* when(raw_float > threshold).then(raw_float / 100).otherwise(raw_float)
CorrectedFloat(raw_float, cfg) ==
    IF IsNull(raw_float) THEN None
    ELSE LET f == raw_float[1]
         IN IF f.num > cfg.price_scale_threshold * f.den
            THEN Some([num |-> f.num, den |-> f.den * 100])
            ELSE Some(f)

RECURSIVE Gcd(_, _)
Gcd(a, b) == IF b = 0 THEN a ELSE Gcd(b, a % b)

\* round half away from zero of the non-negative a / b
RoundDiv(a, b) == (2 * a + b) \div (2 * b)

\* round(num * mul / div), the factor mul / div reduced first
MulDivRound(num, mul, div) ==
    LET g == Gcd(mul, div) IN RoundDiv(num * (mul \div g), div \div g)

\* The same with .round(0): whole euros.
PriceFinalWholeEuros(is_usd, corrected_float, cfg) ==
    IF IsNull(corrected_float) THEN None
    ELSE LET c == corrected_float[1]
         IN IF is_usd
            THEN Some(100 * MulDivRound(c.num, 100, c.den * cfg.usd_to_eur_rate))
            ELSE Some(100 * MulDivRound(c.num, 1, c.den))

\* when(is_usd).then(corrected_float / rate).otherwise(corrected_float)
\* .round(2), as a number of cents
PriceFinal(is_usd, corrected_float, cfg) ==
    IF IsNull(corrected_float) THEN None
    ELSE LET c == corrected_float[1]
         IN IF is_usd
            THEN Some(MulDivRound(c.num, 100 * 100, c.den * cfg.usd_to_eur_rate))
            ELSE Some(MulDivRound(c.num, 100, c.den))

\* The scale correction decided after the currency conversion, on the
\* converted value, instead of before it.
NormalizeRowConvertFirst(r, cfg) ==
    LET is_usd == ContainsDollar(r.raw_price)
        raw_float == RawFloat(r.raw_price)
        converted == IF IsNull(raw_float) \/ ~is_usd THEN raw_float
                     ELSE Some([num |-> raw_float[1].num * 100,
                                den |-> raw_float[1].den * cfg.usd_to_eur_rate])
        corrected_float == CorrectedFloat(converted, cfg)
    IN [raw_name |-> r.raw_name,
        raw_price |-> r.raw_price,
        is_usd |-> is_usd,
        raw_float |-> raw_float,
        corrected_float |-> corrected_float,
        price_final |-> PriceFinal(FALSE, corrected_float, cfg)]

NormalizeRow(r, cfg) ==
    LET is_usd == ContainsDollar(r.raw_price)
        raw_float == RawFloat(r.raw_price)
        corrected_float == CorrectedFloat(raw_float, cfg)
    IN [raw_name |-> r.raw_name,
        raw_price |-> r.raw_price,
        is_usd |-> is_usd,
        raw_float |-> raw_float,
        corrected_float |-> corrected_float,
        price_final |-> PriceFinal(is_usd, corrected_float, cfg)]

normalize_pricing(frame, cfg) == [i \in 1..Len(frame) |-> NormalizeRow(frame[i], cfg)]

----------------------------------------------------------------------------
(* generate_fingerprints *)

\* .str.to_lowercase()
LowerChar(c) ==
    IF InSeq(UpperLetters, c) THEN LowerLetters[IndexOf(UpperLetters, c)]
    ELSE IF c = "É" THEN "é"
    ELSE c

ToLowercase(s) == [i \in 1..Len(s) |-> LowerChar(s[i])]

MatchesAt(s, i, pat) ==
    /\ Len(pat) > 0
    /\ i + Len(pat) - 1 <= Len(s)
    /\ SubSeq(s, i, i + Len(pat) - 1) = pat

\* .str.replace_many(keys, vals): one left-to-right pass over the text for
\* all patterns at once; what a replacement writes is not scanned again.
\* (No key of the lists used here is a substring of another key, so at most
\* one key matches at a position.)
RECURSIVE ReplaceManyFrom(_, _, _)
ReplaceManyFrom(s, i, syn) ==
    IF i > Len(s) THEN <<>>
    ELSE LET hits == {k \in 1..Len(syn) : MatchesAt(s, i, syn[k][1])}
         IN IF hits = {}
            THEN <<s[i]>> \o ReplaceManyFrom(s, i + 1, syn)
            ELSE LET k == CHOOSE h \in hits : \A g \in hits : h <= g
                 IN syn[k][2] \o ReplaceManyFrom(s, i + Len(syn[k][1]), syn)

\* One str.replace_all(key, val) per rule, in the order of the list, each on
\* the text the rules before it produced.
RECURSIVE ReplaceOneByOne(_, _)
ReplaceOneByOne(s, syn) ==
    IF syn = <<>> THEN s
    ELSE ReplaceOneByOne(ReplaceManyFrom(s, 1, <<Head(syn)>>), Tail(syn))

ReplaceMany(s, syn) == ReplaceManyFrom(s, 1, syn)

\* The alternatives of the pattern of line 93, in its order.  The last one is
\* the eight characters the source file holds: l i m i t U+00C3 U+00A9 e.
Stopwords ==
    << <<"e","d","i","t","i","o","n">>,
       <<"e","u","r">>,
       <<"p","r","o","m","o">>,
       <<"s","o","l","d","e","s">>,
       <<"o","f","f","r","e">>,
       <<"v","e","n","t","e">>,
       <<"v","e","r","s","i","o","n">>,
       <<"l","i","m","i","t","Ã","©","e">> >>

\* \w of the regex engine (Unicode): letters, digits, underscore.
IsWordChar(c) ==
    \/ InSeq(LowerLetters, c) \/ InSeq(UpperLetters, c) \/ c \in Digits
    \/ c \in {"_", "é", "É", "ã", "Ã"}

\* \s of the regex engine
IsSpace(c) == c \in {" ", "\t"}

\* .str.replace_all(r"\b(...)\b", "")
RECURSIVE RemoveWordsFrom(_, _, _)
RemoveWordsFrom(s, i, words) ==
    IF i > Len(s) THEN <<>>
    ELSE LET hits == {k \in 1..Len(words) :
                        /\ MatchesAt(s, i, words[k])
                        /\ (i = 1 \/ ~IsWordChar(s[i - 1]))
                        /\ (i + Len(words[k]) - 1 = Len(s)
                            \/ ~IsWordChar(s[i + Len(words[k])]))}
         IN IF hits = {}
            THEN <<s[i]>> \o RemoveWordsFrom(s, i + 1, words)
            ELSE LET k == CHOOSE h \in hits : \A g \in hits : h <= g
                 IN RemoveWordsFrom(s, i + Len(words[k]), words)

RemoveStopwords(s) == RemoveWordsFrom(s, 1, Stopwords)

\* .str.replace_all(r"[^a-z0-9\s]", " ")
ReplaceNonAlnum(s) ==
    [i \in 1..Len(s) |->
        IF InSeq(CharOrder, s[i]) \/ IsSpace(s[i]) THEN s[i] ELSE " "]

\* .str.replace_all(r"\s+", " ")
RECURSIVE CollapseSpaces(_)
CollapseSpaces(s) ==
    IF s = <<>> THEN <<>>
    ELSE IF IsSpace(Head(s))
         THEN IF Len(s) > 1 /\ IsSpace(s[2])
              THEN CollapseSpaces(Tail(s))
              ELSE <<" ">> \o CollapseSpaces(Tail(s))
         ELSE <<Head(s)>> \o CollapseSpaces(Tail(s))

\* .str.strip_chars()
RECURSIVE StripChars(_)
StripChars(s) ==
    IF s = <<>> THEN s
    ELSE IF IsSpace(Head(s)) THEN StripChars(Tail(s))
    ELSE IF IsSpace(s[Len(s)]) THEN StripChars(SubSeq(s, 1, Len(s) - 1))
    ELSE s

\* .str.split(" "): the empty text gives one empty token
RECURSIVE SplitFrom(_, _)
SplitFrom(s, cur) ==
    IF s = <<>> THEN <<cur>>
    ELSE IF Head(s) = " " THEN <<cur>> \o SplitFrom(Tail(s), <<>>)
    ELSE SplitFrom(Tail(s), Append(cur, Head(s)))

Split(s) == SplitFrom(s, <<>>)

CharRank(c) == IF InSeq(CharOrder, c) THEN IndexOf(CharOrder, c) ELSE 0

RECURSIVE TokenLessEq(_, _)
TokenLessEq(a, b) ==
    IF a = <<>> THEN TRUE
    ELSE IF b = <<>> THEN FALSE
    ELSE IF CharRank(Head(a)) # CharRank(Head(b))
         THEN CharRank(Head(a)) < CharRank(Head(b))
    ELSE TokenLessEq(Tail(a), Tail(b))

RECURSIVE InsertSorted(_, _)
InsertSorted(t, sorted) ==
    IF sorted = <<>> THEN <<t>>
    ELSE IF TokenLessEq(t, Head(sorted)) THEN <<t>> \o sorted
    ELSE <<Head(sorted)>> \o InsertSorted(t, Tail(sorted))

\* .list.sort()
RECURSIVE ListSort(_)
ListSort(ts) == IF ts = <<>> THEN <<>> ELSE InsertSorted(Head(ts), ListSort(Tail(ts)))

\* .list.join(" ")
RECURSIVE ListJoin(_)
ListJoin(ts) ==
    IF ts = <<>> THEN <<>>
    ELSE IF Len(ts) = 1 THEN ts[1]
    ELSE ts[1] \o <<" ">> \o ListJoin(Tail(ts))

\* The chain after the synonym substitution (lines 93 to 99).
Canonical(s) ==
    ListJoin(ListSort(Split(StripChars(CollapseSpaces(
        ReplaceNonAlnum(RemoveStopwords(s)))))))

Fingerprint(raw_name, syn) == Canonical(ReplaceMany(ToLowercase(raw_name), syn))

generate_fingerprints(frame, syn) ==
    [i \in 1..Len(frame) |->
        frame[i] @@ [fingerprint |-> Fingerprint(frame[i].raw_name, syn)]]

----------------------------------------------------------------------------
(* filter_anomalies *)

RECURSIVE SumPrices(_, _)
SumPrices(frame, idx) ==
    IF idx = {} THEN 0
    ELSE LET i == CHOOSE j \in idx : TRUE
         IN frame[i].price_final[1] + SumPrices(frame, idx \ {i})

\* The mean over the rows that pass the price floor only.
GroupMeanOfAccepted(frame, fp) ==
    LET idx == {i \in 1..Len(frame) :
                  /\ frame[i].fingerprint = fp
                  /\ ~IsNull(frame[i].price_final)
                  /\ frame[i].price_final[1] >= MinPriceEur}
    IN IF idx = {} THEN None
       ELSE Some([sum |-> SumPrices(frame, idx), cnt |-> Cardinality(idx)])

\* The mean with a null price counted as a price of 0.
GroupMeanNullAsZero(frame, fp) ==
    LET all == {i \in 1..Len(frame) : frame[i].fingerprint = fp}
        idx == {i \in all : ~IsNull(frame[i].price_final)}
    IN IF all = {} THEN None
       ELSE Some([sum |-> SumPrices(frame, idx), cnt |-> Cardinality(all)])

\* pl.col("price_final").mean().over("fingerprint"): the mean of the non-null
\* prices of the rows of the frame with this fingerprint, as sum / cnt; null
\* when there is none.
GroupMean(frame, fp) ==
    LET idx == {i \in 1..Len(frame) :
                  frame[i].fingerprint = fp /\ ~IsNull(frame[i].price_final)}
    IN IF idx = {} THEN None
       ELSE Some([sum |-> SumPrices(frame, idx), cnt |-> Cardinality(idx)])

WithGroupMean(frame) ==
    [i \in 1..Len(frame) |->
        frame[i] @@ [group_mean |-> GroupMean(frame, frame[i].fingerprint)]]

\* The predicate of .filter(...); a comparison with a null is null and the
\* row is dropped.
Keep(r, cfg) ==
    /\ ~IsNull(r.price_final)
    /\ ~IsNull(r.group_mean)
    /\ r.price_final[1] >= cfg.min_price_eur
    /\ r.price_final[1] * r.group_mean[1].cnt
          <= r.group_mean[1].sum * cfg.max_price_multiplier
    /\ Len(r.fingerprint) > 1

filter_anomalies(frame, cfg) ==
    LET Test(r) == Keep(r, cfg)
    IN SelectSeq(WithGroupMean(frame), Test)

----------------------------------------------------------------------------
(* aggregate_products *)

FingerprintsOf(frame) == {frame[i].fingerprint : i \in 1..Len(frame)}

GroupIdx(frame, fp) == {i \in 1..Len(frame) : frame[i].fingerprint = fp}

\* The raw_name of the first row of the group, whatever its length.
TitleOfFirstRow(frame, fp) ==
    {frame[CHOOSE j \in GroupIdx(frame, fp) :
               \A k \in GroupIdx(frame, fp) : j <= k].raw_name}

\* .sort_by(len_chars, descending=True).first(): sort_by does not keep the
\* order of equal elements (maintain_order is not set), so any raw_name of the
\* greatest length can come first.
TitleCandidates(frame, fp) ==
    {frame[i].raw_name : i \in {j \in GroupIdx(frame, fp) :
        \A k \in GroupIdx(frame, fp) :
            Len(frame[k].raw_name) <= Len(frame[j].raw_name)}}

\* The pre-filter mean carried in the group_mean column, rounded.
AvgPriceFromGroupMean(frame, fp) ==
    LET m == frame[CHOOSE j \in GroupIdx(frame, fp) : TRUE].group_mean[1]
    IN RoundDiv(m.sum, m.cnt)

\* pl.col("price_final").mean().round(2), in cents
AvgPrice(frame, fp) ==
    RoundDiv(SumPrices(frame, GroupIdx(frame, fp)), Cardinality(GroupIdx(frame, fp)))

\* One record per group, with the display_title chosen by title.
GroupRecords(frame, title) ==
    {[fingerprint |-> fp,
      display_title |-> title[fp],
      avg_price |-> AvgPrice(frame, fp),
      occurrence_count |-> Cardinality(GroupIdx(frame, fp))] : fp \in FingerprintsOf(frame)}

\* .sort("occurrence_count", descending=True): the orders of the records
\* with the counts not increasing (the order of equal counts is not fixed).
SortedOrders(recs) ==
    {o \in [1..Cardinality(recs) -> recs] :
        /\ \A i, j \in 1..Cardinality(recs) : i # j => o[i] # o[j]
        /\ \A i, j \in 1..Cardinality(recs) :
              i < j => o[i].occurrence_count >= o[j].occurrence_count}

\* .select(["display_title", "avg_price", "occurrence_count"])
SelectColumns(o) ==
    [i \in 1..Len(o) |->
        [display_title |-> o[i].display_title,
         avg_price |-> o[i].avg_price,
         occurrence_count |-> o[i].occurrence_count]]

----------------------------------------------------------------------------
(* The written file read back as a feed *)

RECURSIVE DigitsOf(_)
DigitsOf(n) ==
    IF n < 10 THEN <<CharOrder[n + 1]>>
    ELSE DigitsOf(n \div 10) \o <<CharOrder[(n % 10) + 1]>>

\* sink_csv writes a float in its shortest form with at least one decimal:
\* 1972.0, 50.5, 33.33.
FormatFloat(cents) ==
    DigitsOf(cents \div 100) \o <<".">> \o
        (IF cents % 10 = 0 THEN <<CharOrder[((cents % 100) \div 10) + 1]>>
         ELSE <<CharOrder[((cents % 100) \div 10) + 1], CharOrder[(cents % 10) + 1]>>)

\* Each output record as one input row: raw_name = display_title,
\* raw_price = avg_price as written.
FeedOfOutput(out) ==
    [i \in 1..Len(out) |->
        [raw_name |-> out[i].display_title,
         raw_price |-> FormatFloat(out[i].avg_price)]]

----------------------------------------------------------------------------
(* Inputs *)

MaxRows == 3

\* Runs in a row, each after the first on the file the one before it wrote.
MaxRuns == 2

NameSonyPS5 == <<"S","o","n","y"," ","P","S","5">>

NamePS5Sony == <<"P","S","5"," ","S","o","n","y">>

NameSonyPS5Noisy == <<"s","o","n","y"," "," ","p","s","5","!">>

NameX == <<"X">>

NameDellXPS == <<"D","e","l","l"," ","X","P","S">>

PriceUsd110 == <<"$","1","1","0",".","0","0">>

PriceEur50 == <<"€"," ","5","0",",","0","0">>

Price197200 == <<"1","9","7","2","0","0">>

PriceInvalid == <<"i","n","v","a","l","i","d">>

Price60 == <<"6","0">>

Price499 == <<"4",".","9","9">>

Price1972000 == <<"1","9","7","2","0","0","0">>

Price3 == <<"3">>

Row(name, price) == [raw_name |-> name, raw_price |-> price]

RowCatalog ==
    {Row(NameSonyPS5, PriceUsd110),
     Row(NamePS5Sony, PriceEur50),
     Row(NameSonyPS5Noisy, Price197200),
     Row(NameSonyPS5, PriceInvalid),
     Row(NamePS5Sony, Price3),
     Row(NameX, Price60),
     Row(NameDellXPS, Price499),
     Row(NameDellXPS, Price1972000)}

Feeds == UNION {[1..n -> RowCatalog] : n \in 0..MaxRows}

\* max_price_multiplier: the default, and a small one that a group of three
\* rows can exceed.
Multipliers == {MaxPriceMultiplier, 2}

----------------------------------------------------------------------------------------------------------------------------------------
(* Inputs of the single-function checks *)

\* Price texts: prefix, whole part, separator, decimals, suffix.
PricePrefixes == {<<>>, <<"$">>, <<"€", " ">>}

PriceWholeParts ==
    {<<>>, <<"0">>, <<"5">>, <<"5", "0">>, <<"1", "1", "0">>,
     <<"1", "0", "0", "0", "0">>, <<"1", "0", "0", "0", "1">>,
     <<"1", "1", "0", "0", "0">>, <<"1", "9", "7", "2", "0", "0">>}

PriceSeparators == {<<>>, <<".">>, <<",">>, <<".", ",">>, <<",", ",">>}

PriceDecimals == {<<>>, <<"0">>, <<"0", "0">>, <<"5">>, <<"9", "9">>}

PriceSuffixes == {<<>>, <<" ", "e", "u", "r">>, <<"$">>}

PriceTexts ==
    {pre \o w \o sep \o d \o suf :
        pre \in PricePrefixes, w \in PriceWholeParts, sep \in PriceSeparators,
        d \in PriceDecimals, suf \in PriceSuffixes}
    \cup {PriceInvalid}

Rates == {DefaultRate, 125}

\* Names: a list of words, joined by single spaces, and its variants.
UpperChar(c) ==
    IF InSeq(LowerLetters, c) THEN UpperLetters[IndexOf(LowerLetters, c)]
    ELSE IF c = "é" THEN "É"
    ELSE c

ToUppercase(s) == [i \in 1..Len(s) |-> UpperChar(s[i])]

WordSony == <<"S","o","n","y">>

WordPS5 == <<"P","S","5">>

WordPlayStation5 == <<"P","l","a","y","S","t","a","t","i","o","n","5">>

WordMacBook == <<"M","a","c","B","o","o","k">>

WordPro == <<"P","r","o">>

WordSamsung == <<"S","a","m","s","u","n","g">>

WordS21 == <<"S","2","1">>

WordPS4 == <<"P","S","4">>

BaseWordLists ==
    {<<WordSony, WordPS5>>, <<WordMacBook, WordPro>>, <<WordSamsung, WordS21>>,
     <<WordPlayStation5>>, <<WordPS4, WordSony>>, <<<<"a">>>>, <<<<"x">>, <<"a">>>>}

\* The marketing words of the specification, in several casings.
MarketingWords ==
    {<<"E","d","i","t","i","o","n">>, <<"P","R","O","M","O">>,
     <<"s","o","l","d","e","s">>, <<"V","e","r","s","i","o","n">>,
     <<"L","i","m","i","t","é","e">>}

InsertAt(ws, w, i) == SubSeq(ws, 1, i) \o <<w>> \o SubSeq(ws, i + 1, Len(ws))

\* A marketing word added as a word of its own.
StopwordVariants(ws) ==
    {ListJoin(InsertAt(ws, w, i)) : w \in MarketingWords, i \in 0..Len(ws)}

WordOrders(n) == {f \in [1..n -> 1..n] : \A i, j \in 1..n : i # j => f[i] # f[j]}

OrderVariants(ws) == {ListJoin([i \in 1..Len(ws) |-> ws[f[i]]]) : f \in WordOrders(Len(ws))}

CaseVariants(ws) == {ToUppercase(ListJoin(ws)), ToLowercase(ListJoin(ws))}

PunctuationVariants(ws) ==
    {ListJoin(ws) \o <<"!">>,
     <<"(">> \o ListJoin(ws) \o <<")">>,
     ListJoin([i \in 1..Len(ws) |-> IF i < Len(ws) THEN ws[i] \o <<",">> ELSE ws[i]])}

WhitespaceVariants(ws) ==
    {<<" ">> \o ListJoin(ws),
     ListJoin(ws) \o <<" ", " ">>,
     ListJoin([i \in 1..Len(ws) |-> IF i < Len(ws) THEN ws[i] \o <<" ">> ELSE ws[i]])}

\* A word that is a synonym alias replaced by its expansion.
AliasVariants(ws, syn) ==
    {ListJoin([i \in 1..Len(ws) |-> IF i = j THEN syn[k][2] ELSE ws[i]]) :
        <<j, k>> \in {jk \in (1..Len(ws)) \X (1..Len(syn)) :
                        ToLowercase(ws[jk[1]]) = syn[jk[2]][1]}}

TestSynonyms == <<DefaultSynonyms[1]>>

ChainSynonyms == << << <<"a">>, <<"b">> >>, << <<"b">>, <<"c">> >> >>

NameTestLimitee ==
    <<"S","o","n","y"," ","P","S","5"," ","E","d","i","t","i","o","n"," ",
      "L","i","m","i","t","é","e">>

NameTestPromo ==
    <<"P","r","o","m","o"," ","S","o","n","y"," ",
      "P","l","a","y","S","t","a","t","i","o","n"," ","5">>

NamePairs ==
    UNION {{<<ListJoin(ws), v>> :
              v \in StopwordVariants(ws) \cup OrderVariants(ws) \cup CaseVariants(ws)
                    \cup PunctuationVariants(ws) \cup WhitespaceVariants(ws)
                    \cup AliasVariants(ws, DefaultSynonyms)} : ws \in BaseWordLists}
    \cup {<<NameTestLimitee, NameTestPromo>>}

----------------
(* main *)

Init ==
    /\ pc = "load"
    /\ inputExists \in BOOLEAN
    /\ feed \in (IF inputExists THEN Feeds ELSE {<<>>})
    /\ config \in {PipelineConfig(DefaultRate, m, DefaultSynonyms) : m \in Multipliers}
    /\ lf = <<>>
    /\ groups = {}
    /\ output = <<>>
    /\ written = None
    /\ exitStatus = None
    /\ successLogged = FALSE
    /\ run = 1
    /\ prevOutput = <<>>

\* load_lazy_data without the source.exists() test.
LoadUnchecked ==
    /\ pc = "load"
    /\ lf' = feed
    /\ pc' = "normalize"
    /\ UNCHANGED <<inputExists, feed, config, groups, output, written,
                   exitStatus, successLogged, run, prevOutput>>

\* load_lazy_data, the path exists: the rows of the file, in file order
Load ==
    /\ pc = "load"
    /\ inputExists
    /\ lf' = feed
    /\ pc' = "normalize"
    /\ UNCHANGED <<inputExists, feed, config, groups, output, written,
                   exitStatus, successLogged, run, prevOutput>>

\* load_lazy_data, the path does not exist: FileNotFoundError, caught by
\* main, which logs it and calls sys.exit(1)
LoadMissing ==
    /\ pc = "load"
    /\ ~inputExists
    /\ pc' = "failed"
    /\ exitStatus' = Some(1)
    /\ UNCHANGED <<inputExists, feed, config, lf, groups, output, written,
                   successLogged, run, prevOutput>>

Normalize ==
    /\ pc = "normalize"
    /\ lf' = normalize_pricing(lf, config)
    /\ pc' = "fingerprint"
    /\ UNCHANGED <<inputExists, feed, config, groups, output, written,
                   exitStatus, successLogged, run, prevOutput>>

GenerateFingerprints ==
    /\ pc = "fingerprint"
    /\ lf' = generate_fingerprints(lf, config.synonyms)
    /\ pc' = "filter"
    /\ UNCHANGED <<inputExists, feed, config, groups, output, written,
                   exitStatus, successLogged, run, prevOutput>>

FilterAnomalies ==
    /\ pc = "filter"
    /\ lf' = filter_anomalies(lf, config)
    /\ pc' = "aggregate"
    /\ UNCHANGED <<inputExists, feed, config, groups, output, written,
                   exitStatus, successLogged, run, prevOutput>>

AggregateProducts ==
    /\ pc = "aggregate"
    /\ \E title \in [FingerprintsOf(lf) -> UNION {TitleCandidates(lf, fp) : fp \in FingerprintsOf(lf)}] :
          /\ \A fp \in FingerprintsOf(lf) : title[fp] \in TitleCandidates(lf, fp)
          /\ groups' = GroupRecords(lf, title)
          /\ \E o \in SortedOrders(GroupRecords(lf, title)) : output' = SelectColumns(o)
    /\ pc' = "sink"
    /\ UNCHANGED <<inputExists, feed, config, lf, written,
                   exitStatus, successLogged, run, prevOutput>>

\* pipeline.sink_csv(config.output_path)
SinkCsv ==
    /\ pc = "sink"
    /\ written' = Some(output)
    /\ pc' = "written"
    /\ UNCHANGED <<inputExists, feed, config, lf, groups, output,
                   exitStatus, successLogged, run, prevOutput>>

\* logger.info("Success. ...") and the return of main: exit status 0
Succeed ==
    /\ pc = "written"
    /\ successLogged' = TRUE
    /\ exitStatus' = Some(0)
    /\ pc' = "done"
    /\ UNCHANGED <<inputExists, feed, config, lf, groups, output, written,
                   run, prevOutput>>

\* An exception in a stage (a malformed record, an I/O failure on write, an
\* unexpected error): caught by main, which logs it and calls sys.exit(1).
\* The process ends and its frames with it.
Fail ==
    /\ pc \in {"normalize", "fingerprint", "filter", "aggregate", "sink"}
       \/ (pc = "load" /\ inputExists)
    /\ pc' = "failed"
    /\ exitStatus' = Some(1)
    /\ lf' = <<>>
    /\ groups' = {}
    /\ output' = <<>>
    /\ UNCHANGED <<inputExists, feed, config, written, successLogged, run, prevOutput>>

\* Another run of the program, on the file the last one wrote.
RunOnOwnOutput ==
    /\ pc = "done"
    /\ run < MaxRuns
    /\ run' = run + 1
    /\ prevOutput' = written[1]
    /\ feed' = FeedOfOutput(written[1])
    /\ pc' = "load"
    /\ lf' = <<>>
    /\ groups' = {}
    /\ output' = <<>>
    /\ written' = None
    /\ exitStatus' = None
    /\ successLogged' = FALSE
    /\ UNCHANGED <<inputExists, config>>

Next ==
    \/ Load
    \/ LoadMissing
    \/ Normalize
    \/ GenerateFingerprints
    \/ FilterAnomalies
    \/ AggregateProducts
    \/ SinkCsv
    \/ Succeed
    \/ Fail
    \/ RunOnOwnOutput

Spec == Init /\ [][Next]_vars

\* One row, the raw_price drawn from PriceTexts, the rate from Rates.
InitPrice ==
    /\ pc = "load"
    /\ inputExists \in BOOLEAN
    /\ feed \in (IF inputExists THEN {<<Row(NameSonyPS5, p)>> : p \in PriceTexts}
                 ELSE {<<>>})
    /\ config \in {PipelineConfig(r, MaxPriceMultiplier, DefaultSynonyms) : r \in Rates}
    /\ lf = <<>>
    /\ groups = {}
    /\ output = <<>>
    /\ written = None
    /\ exitStatus = None
    /\ successLogged = FALSE
    /\ run = 1
    /\ prevOutput = <<>>

SpecPrice == InitPrice /\ [][Next]_vars

\* Two rows, a name and a variant of it, under each synonym list.
InitNames ==
    /\ pc = "load"
    /\ inputExists \in BOOLEAN
    /\ feed \in (IF inputExists
                 THEN {<<Row(np[1], Price60), Row(np[2], Price60)>> : np \in NamePairs}
                 ELSE {<<>>})
    /\ config \in {PipelineConfig(DefaultRate, MaxPriceMultiplier, syn) :
                       syn \in {DefaultSynonyms, TestSynonyms, ChainSynonyms}}
    /\ lf = <<>>
    /\ groups = {}
    /\ output = <<>>
    /\ written = None
    /\ exitStatus = None
    /\ successLogged = FALSE
    /\ run = 1
    /\ prevOutput = <<>>

SpecNames == InitNames /\ [][Next]_vars

----------------------------------------------------------------------------
(* Properties *)

ReplaceEveryComma(s) == [i \in 1..Len(s) |-> IF s[i] = "," THEN "." ELSE s[i]]

\* The stripped text of a raw price: digits, commas and periods kept, comma
\* replaced by period; and the decimal it parses as, if any.
ClaimParsed(raw_price) == CastFloat(ReplaceEveryComma(SelectSeq(raw_price, IsNumericChar)))

\* e is a / b rounded to the nearest integer, a half rounded up
IsRounded(e, a, b) == 2 * e * b <= 2 * a + b /\ 2 * a + b < (2 * e + 2) * b

ClaimPriceFinal(r, cfg) ==
    LET p == ClaimParsed(r.raw_price)
    IN IsNull(p) \/
       LET usd == \E i \in 1..Len(r.raw_price) : r.raw_price[i] = "$"
           \* c = p / 100 if p > threshold, c = p otherwise
           cden == IF p[1].num > cfg.price_scale_threshold * p[1].den
                   THEN p[1].den * 100 ELSE p[1].den
           \* cents = 100 * c / (rate / 100) with a dollar sign, 100 * c without
           mul == IF usd THEN 100 * 100 ELSE 100
           div == IF usd THEN cden * cfg.usd_to_eur_rate ELSE cden
           g == Gcd(mul, div)
       IN /\ ~IsNull(r.price_final)
          /\ IsRounded(r.price_final[1], p[1].num * (mul \div g), div \div g)

\* C1: after normalize_pricing every row whose stripped price text parses as
\* a decimal p has price_final = round2(c / rate) with a dollar sign and
\* round2(c) without, c = p / 100 if p > price_scale_threshold and c = p
\* otherwise, the scale decided on p before the conversion; at rate 1.10
\* "$110.00" gives 100.0, "197200" gives 1972.0 and "€ 50,00" gives 50.0.
C1_NormalizePricing ==
    pc \in {"fingerprint", "filter"} =>
        \A i \in 1..Len(lf) :
            /\ ClaimPriceFinal(lf[i], config)
            /\ config.usd_to_eur_rate = DefaultRate =>
                  /\ lf[i].raw_price = PriceUsd110 => lf[i].price_final = Some(10000)
                  /\ lf[i].raw_price = Price197200 => lf[i].price_final = Some(197200)
                  /\ lf[i].raw_price = PriceEur50 => lf[i].price_final = Some(5000)

\* A dollar price above the threshold has been scaled and then converted.
C1_Witness ==
    /\ pc = "fingerprint"
    /\ \E i \in 1..Len(lf) :
          /\ lf[i].is_usd
          /\ ~IsNull(lf[i].raw_float)
          /\ lf[i].corrected_float # lf[i].raw_float
          /\ lf[i].raw_float[1].num * 100
                <= config.price_scale_threshold * lf[i].raw_float[1].den
                   * config.usd_to_eur_rate
          /\ ~IsNull(lf[i].price_final)

IsParseable(r) == ~IsNull(ClaimParsed(r.raw_price))

\* fingerprint, rounded mean and number of rows of each group of a frame
StatsOf(frame) ==
    {[fingerprint |-> fp,
      avg_price |-> AvgPrice(frame, fp),
      occurrence_count |-> Cardinality(GroupIdx(frame, fp))] : fp \in FingerprintsOf(frame)}

StatsOfGroups(gs) ==
    {[fingerprint |-> g.fingerprint,
      avg_price |-> g.avg_price,
      occurrence_count |-> g.occurrence_count] : g \in gs}

\* The rows the filter keeps when the unparseable rows are not in the input.
KeptWithoutUnparseable ==
    filter_anomalies(
        generate_fingerprints(
            normalize_pricing(SelectSeq(feed, IsParseable), config), config.synonyms),
        config)

\* C2: a row whose raw_price cannot be parsed gets a null price_final, is in
\* no output group, and the other rows are kept or dropped, counted and
\* averaged exactly as if that row were not in the input.
C2_UnparseableRowIgnored ==
    /\ pc \in {"fingerprint", "filter"} =>
          \A i \in 1..Len(lf) : ~IsParseable(lf[i]) => IsNull(lf[i].price_final)
    /\ pc \in {"aggregate", "sink", "written", "done"} =>
          /\ \A i \in 1..Len(lf) : IsParseable(lf[i])
          /\ lf = KeptWithoutUnparseable
    /\ pc \in {"sink", "written", "done"} =>
          StatsOfGroups(groups) = StatsOf(KeptWithoutUnparseable)

\* A run with an unparseable row and a kept row ended with status 0.
C2_Witness ==
    /\ pc = "done"
    /\ run = 1
    /\ exitStatus = Some(0)
    /\ \E i \in 1..Len(feed) : ~IsParseable(feed[i])
    /\ Len(lf) > 0
    /\ Len(lf) < Len(SelectSeq(feed, IsParseable))

DropGroupMean(frame) ==
    [i \in 1..Len(frame) |->
        [f \in (DOMAIN frame[i]) \ {"group_mean"} |-> frame[i][f]]]

\* Sum and number of the non-null prices of the rows 1..n of the frame with
\* the fingerprint fp.
RECURSIVE ClaimPriceSum(_, _, _)
ClaimPriceSum(frame, fp, n) ==
    IF n = 0 THEN 0
    ELSE ClaimPriceSum(frame, fp, n - 1)
         + (IF frame[n].fingerprint = fp /\ frame[n].price_final # <<>>
            THEN frame[n].price_final[1] ELSE 0)

ClaimPriceCount(frame, fp) ==
    Cardinality({n \in 1..Len(frame) :
                   frame[n].fingerprint = fp /\ frame[n].price_final # <<>>})

\* price_final <= max_price_multiplier * M, M the mean over the whole frame
ClaimSurvives(frame, i, cfg) ==
    /\ frame[i].price_final # <<>>
    /\ frame[i].price_final[1] >= cfg.min_price_eur
    /\ Len(frame[i].fingerprint) > 1
    /\ frame[i].price_final[1] * ClaimPriceCount(frame, frame[i].fingerprint)
          <= cfg.max_price_multiplier
             * ClaimPriceSum(frame, frame[i].fingerprint, Len(frame))

RECURSIVE ClaimKept(_, _, _)
ClaimKept(frame, n, cfg) ==
    IF n = 0 THEN <<>>
    ELSE IF ClaimSurvives(frame, n, cfg)
         THEN Append(ClaimKept(frame, n - 1, cfg), frame[n])
         ELSE ClaimKept(frame, n - 1, cfg)

\* C3: filter_anomalies keeps exactly the rows with a non-null price_final
\* >= min_price_eur, a fingerprint longer than 1 and price_final <=
\* max_price_multiplier * M, M the mean of the non-null prices of all the rows
\* entering the filter with that fingerprint, rejected rows included.
C3_FilterAnomalies ==
    [][pc = "filter" /\ pc' = "aggregate" =>
          DropGroupMean(lf') = ClaimKept(lf, Len(lf), config)]_vars

\* The rows as they enter the filter.
Entering == generate_fingerprints(normalize_pricing(feed, config), config.synonyms)

\* The filter kept a row and dropped, for its price above the bound alone,
\* a row of the same group.
C3_Witness ==
    /\ pc = "aggregate"
    /\ \E i, j \in 1..Len(feed) :
          /\ Entering[i].fingerprint = Entering[j].fingerprint
          /\ \E k \in 1..Len(lf) : DropGroupMean(lf)[k] = Entering[j]
          /\ Entering[i].price_final # <<>>
          /\ Entering[i].price_final[1] >= config.min_price_eur
          /\ Len(Entering[i].fingerprint) > 1
          /\ \A k \in 1..Len(lf) : DropGroupMean(lf)[k] # Entering[i]

RECURSIVE SumCounts(_)
SumCounts(out) ==
    IF out = <<>> THEN 0 ELSE Head(out).occurrence_count + SumCounts(Tail(out))

\* C6: aggregate_products emits one record for each fingerprint with a
\* surviving row and no other; occurrence_count is the number of surviving
\* rows of the fingerprint (the counts sum to the number of surviving rows)
\* and avg_price the mean of their price_final rounded to 2 decimals.
C6_AggregateProducts ==
    pc \in {"sink", "written", "done"} =>
        /\ {g.fingerprint : g \in groups} = {lf[i].fingerprint : i \in 1..Len(lf)}
        /\ \A g, h \in groups : g.fingerprint = h.fingerprint => g = h
        /\ \A g \in groups :
              /\ g.occurrence_count =
                    Cardinality({i \in 1..Len(lf) : lf[i].fingerprint = g.fingerprint})
              /\ IsRounded(g.avg_price, ClaimPriceSum(lf, g.fingerprint, Len(lf)),
                           g.occurrence_count)
        /\ Len(output) = Cardinality(groups)
        /\ {output[i] : i \in 1..Len(output)}
              = {[display_title |-> g.display_title, avg_price |-> g.avg_price,
                  occurrence_count |-> g.occurrence_count] : g \in groups}
        /\ SumCounts(output) = Len(lf)

\* A group of several rows whose average is not the pre-filter mean.
C6_Witness ==
    /\ pc = "sink"
    /\ \E g \in groups : \E i \in 1..Len(lf) :
          /\ lf[i].fingerprint = g.fingerprint
          /\ g.occurrence_count >= 2
          /\ ~IsRounded(g.avg_price, lf[i].group_mean[1].sum, lf[i].group_mean[1].cnt)

\* The record a run on the output of the run before it gives for the record r
\* of that output.
OneRecordFor(r) ==
    Cardinality({j \in 1..Len(output) :
        output[j] = [display_title |-> r.display_title,
                     avg_price |-> r.avg_price,
                     occurrence_count |-> 1]}) = 1

\* C7 as stated: a run on the output of the run before it gives for every
\* record one record with the same display_title and avg_price and
\* occurrence_count 1.
C7_RerunKeepsEveryRecord ==
    (run >= 2 /\ pc = "done") =>
        \A i \in 1..Len(prevOutput) : OneRecordFor(prevOutput[i])

\* C7 as amended: the same for every record whose avg_price does not exceed
\* price_scale_threshold.
C7_RerunKeepsRecordsUpToThreshold ==
    (run >= 2 /\ pc = "done") =>
        \A i \in 1..Len(prevOutput) :
            prevOutput[i].avg_price <= config.price_scale_threshold * 100
                => OneRecordFor(prevOutput[i])

\* A run on its own output ended, on a record that stood for several rows.
C7_Witness ==
    /\ run >= 2
    /\ pc = "done"
    /\ \E i \in 1..Len(prevOutput) :
          /\ prevOutput[i].occurrence_count >= 2
          /\ prevOutput[i].avg_price % 100 # 0
          /\ OneRecordFor(prevOutput[i])

StageEdges ==
    {<<"load", "normalize">>, <<"normalize", "fingerprint">>,
     <<"fingerprint", "filter">>, <<"filter", "aggregate">>,
     <<"aggregate", "sink">>, <<"sink", "written">>, <<"written", "done">>}

\* C8: a run goes through Read, Normalize, Fingerprint, Filter, Aggregate,
\* Write in that order, no stage twice; a missing input fails before a row is
\* read; a failure ends the run in a terminal failed state with a non-zero
\* status and no success report; status 0 only after the output is written.
C8_LinearFailFast ==
    /\ [](/\ ~inputExists => (lf = <<>> /\ pc \in {"load", "failed"})
          /\ pc = "failed" => (exitStatus = Some(1) /\ ~successLogged)
          /\ exitStatus # Some(1) => pc # "failed"
          /\ (exitStatus = Some(0) \/ successLogged) => (pc = "done" /\ written = Some(output))
          /\ pc # "done" /\ pc # "failed" => exitStatus = None)
    /\ [][/\ pc' # pc =>
                \/ <<pc, pc'>> \in StageEdges /\ run' = run
                \/ pc' = "failed" /\ pc # "done" /\ run' = run
                \/ pc = "done" /\ pc' = "load" /\ run' = run + 1
          /\ pc = "failed" => pc' = "failed"]_vars

\* A run has ended with status 0 and its output written.
C8_Witness ==
    /\ pc = "done"
    /\ exitStatus = Some(0)
    /\ written = Some(output)
    /\ Len(output) > 0

\* The rows of the group of g, and those of the greatest raw_name length.
ClaimLongest(g) ==
    {i \in 1..Len(lf) :
        /\ lf[i].fingerprint = g.fingerprint
        /\ \A k \in 1..Len(lf) :
              lf[k].fingerprint = g.fingerprint => Len(lf[k].raw_name) <= Len(lf[i].raw_name)}

\* C10 as stated: display_title is the raw_name of the first, in input order,
\* of the surviving rows of the group with the greatest character length.
C10_TitleFirstOfLongest ==
    pc \in {"sink", "written", "done"} =>
        \A g \in groups :
            \E i \in ClaimLongest(g) :
                /\ g.display_title = lf[i].raw_name
                /\ \A k \in ClaimLongest(g) : i <= k

\* C10 as amended: display_title is the raw_name of a surviving row of the
\* group with the greatest character length.
C10_TitleOfLongest ==
    pc \in {"sink", "written", "done"} =>
        \A g \in groups : \E i \in ClaimLongest(g) : g.display_title = lf[i].raw_name

\* A group with a shorter and a longer name, the longer one its title.
C10_Witness ==
    /\ pc = "sink"
    /\ \E g \in groups : \E i, k \in 1..Len(lf) :
          /\ lf[i].fingerprint = g.fingerprint
          /\ lf[k].fingerprint = g.fingerprint
          /\ Len(lf[k].raw_name) < Len(lf[i].raw_name)
          /\ k < i
          /\ g.display_title = lf[i].raw_name

FingerprintTestExample ==
    <<"5"," ","p","l","a","y","s","t","a","t","i","o","n"," ","s","o","n","y">>

\* C4: every marketing word ("edition", "promo", "soldes", "version",
\* "limitée") is removed as a whole word, in any casing, so a name and the
\* same name with such a word added have the same fingerprint; with the
\* synonym "ps5" -> "playstation 5", "Sony PS5 Edition Limitée" and
\* "Promo Sony PlayStation 5" both give "5 playstation sony".
C4_StopwordsRemoved ==
    pc = "filter" =>
        /\ \A i, j \in 1..Len(lf) :
              lf[j].raw_name \in StopwordVariants(Split(lf[i].raw_name))
                  => lf[j].fingerprint = lf[i].fingerprint
        /\ config.synonyms = TestSynonyms =>
              \A i \in 1..Len(lf) :
                  lf[i].raw_name \in {NameTestLimitee, NameTestPromo}
                      => lf[i].fingerprint = FingerprintTestExample

\* C5: under the default synonym list, two names that differ only in word
\* order, casing, punctuation, stray whitespace, or in a synonym alias used
\* for its expansion have the same fingerprint.
C5_VariantsShareFingerprint ==
    (pc = "filter" /\ config.synonyms = DefaultSynonyms) =>
        \A i, j \in 1..Len(lf) :
            LET ws == Split(lf[i].raw_name)
            IN lf[j].raw_name \in OrderVariants(ws) \cup CaseVariants(ws)
                                  \cup PunctuationVariants(ws)
                                  \cup WhitespaceVariants(ws)
                                  \cup AliasVariants(ws, DefaultSynonyms)
                   => lf[j].fingerprint = lf[i].fingerprint

\* C9 as stated: the substitutions are applied one after another in the
\* order supplied, each on the text the ones before it produced; with the
\* rules "a" -> "b" then "b" -> "c" the name "a" is rewritten to "c".
C9_RulesFeedLaterRules ==
    pc = "filter" =>
        \A i \in 1..Len(lf) :
            /\ lf[i].fingerprint =
                  Canonical(ReplaceOneByOne(ToLowercase(lf[i].raw_name), config.synonyms))
            /\ (config.synonyms = ChainSynonyms /\ lf[i].raw_name = <<"a">>)
                  => lf[i].fingerprint = <<"c">>

IsKey(w, syn) == \E k \in 1..Len(syn) : syn[k][1] = w

KeyFree(w, syn) ==
    \A k \in 1..Len(syn) : \A i \in 1..Len(w) : ~MatchesAt(w, i, syn[k][1])

\* Each word that is a key replaced by the value of the first rule with that
\* key, every other word left as it is.
ClaimSubstituted(ws, syn) ==
    ListJoin([i \in 1..Len(ws) |->
        IF IsKey(ws[i], syn)
        THEN syn[CHOOSE k \in 1..Len(syn) :
                    syn[k][1] = ws[i] /\ \A h \in 1..(k - 1) : syn[h][1] # ws[i]][2]
        ELSE ws[i]])

\* C9 as amended: the substitutions are applied in one pass over the
\* lowercased name and the text a rule writes is not matched again: for a name
\* whose words each are a key or hold no key, the fingerprint is that of the
\* name with each key word replaced once by its value; with the rules
\* "a" -> "b" then "b" -> "c" the name "a" is rewritten to "b".
C9_SinglePass ==
    pc = "filter" =>
        \A i \in 1..Len(lf) :
            LET ws == Split(ToLowercase(lf[i].raw_name))
            IN /\ (\A n \in 1..Len(ws) :
                      IsKey(ws[n], config.synonyms) \/ KeyFree(ws[n], config.synonyms))
                    => lf[i].fingerprint = Canonical(ClaimSubstituted(ws, config.synonyms))
               /\ (config.synonyms = ChainSynonyms /\ lf[i].raw_name = <<"a">>)
                    => lf[i].fingerprint = <<"b">>

\* Under the rules "a" -> "b", "b" -> "c" the name "a" has the fingerprint "b".
C9_Witness ==
    /\ pc = "filter"
    /\ config.synonyms = ChainSynonyms
    /\ \E i \in 1..Len(lf) : lf[i].raw_name = <<"a">> /\ lf[i].fingerprint = <<"b">>

====
